---- MODULE Spec2Model ----
(***************************************************************************)
(* Model of aws_signing_client (client.go): the factory New, which wires a *)
(* Signer in front of an http.Client's transport, and Signer.RoundTrip,    *)
(* which normalises, buffers, signs and forwards one request.              *)
(*                                                                         *)
(* Strings the code inspects (header values, raw paths) are sequences of   *)
(* one-character strings, so that strings.HasPrefix, strings.Contains and  *)
(* rest.EscapePath are computed character by character.                    *)
(***************************************************************************)
EXTENDS Integers, Sequences, FiniteSets, TLC

VARIABLES clients, signers, lastNew, req, calls, base, clock

vars == <<clients, signers, lastNew, req, calls, base, clock>>

-----------------------------------------------------------------------------
(* Bounds *)

\* number of Signers New may allocate (depth of decorator stacking)
MaxSigners == 2
\* longest request body, in bytes
MaxBodyLen == 1
\* largest reading of the wall clock, in ticks
MaxClock == 2
\* clock ticks per second (time.RFC3339 has a resolution of one second)
TicksPerSecond == 2

-----------------------------------------------------------------------------
(* Values *)

NilErr == "nil"
MissingSignerError == "MissingSignerError"
MissingServiceError == "MissingServiceError"
MissingRegionError == "MissingRegionError"
ErrRead == "ErrRead"
ErrSign == "ErrSign"
ErrNet == "ErrNet"

NilResp == "nil"
Resp200 == "resp200"

\* http.RoundTripper values: nil, a transport that is not a Signer, or a Signer
NilTransport == [kind |-> "nil", id |-> 0]
DefaultTransport == [kind |-> "base", id |-> 0]
CustomTransport == [kind |-> "base", id |-> 1]
SignerRef(i) == [kind |-> "signer", id |-> i]

\* *http.Client values
NilClient == "nil"
DefaultClient == "DefaultClient"
UserClient == "userClient"
Clients == {DefaultClient, UserClient}

\* *v4.Signer values
NilV4 == "nil"
TheV4 == "v4"

\* ContextLogger values
NilLogger == "nil"
DefaultLogger == "DefaultLogger"
UserLogger == "userLogger"

HTTPS == "https"
Schemes == {"http", HTTPS}

AWS4 == <<"A", "W", "S", "4">>
Pct2C == <<"%", "2", "C">>

-----------------------------------------------------------------------------
(* Pure helpers *)

\* strings.HasPrefix(s, prefix)
HasPrefix(s, prefix) ==
    /\ Len(s) >= Len(prefix)
    /\ SubSeq(s, 1, Len(prefix)) = prefix

\* strings.Contains(s, substr)
Contains(s, substr) ==
    \E i \in 1..(Len(s) - Len(substr) + 1) :
        SubSeq(s, i, i + Len(substr) - 1) = substr

\* the noEscape table of rest.EscapePath, restricted to the model's alphabet
NoEscape == {"a", "c", "C", "2", "5", "0", "-", ".", "_", "~"}

\* fmt.Fprintf(&buf, "%%%02X", c) for the escaped characters of the alphabet
PercentHex(c) ==
    CASE c = "%" -> <<"%", "2", "5">>
      [] c = "," -> <<"%", "2", "C">>
      [] OTHER   -> <<"%", "2", "0">>

\* rest.EscapePath(path, encodeSep)
RECURSIVE EscapePath(_, _)
EscapePath(path, encodeSep) ==
    IF path = <<>> THEN <<>>
    ELSE LET c == Head(path)
             e == IF c \in NoEscape \/ (c = "/" /\ ~encodeSep)
                  THEN <<c>> ELSE PercentHex(c)
         IN e \o EscapePath(Tail(path), encodeSep)

\* t.Format(time.RFC3339): the timestamp cut to whole seconds
Format(t) == <<t \div TicksPerSecond>>

\* time.Now(): the clock moves on by adv ticks and is read
Now(adv) == IF clock + adv > MaxClock THEN MaxClock ELSE clock + adv

\* a request body stream (io.ReadCloser): the bytes behind it, the read
\* position, and whether a Read fails before the end
NilBody == [nil |-> TRUE, data |-> <<>>, pos |-> 0, fails |-> FALSE]
Stream(d, f) == [nil |-> FALSE, data |-> d, pos |-> 0, fails |-> f]

\* mutant of NewReader: the consumed stream is left in place, at its end
NewReaderAtEnd(d) == [nil |-> FALSE, data |-> d, pos |-> Len(d), fails |-> FALSE]

\* ioutil.NopCloser(bytes.NewReader(d))
NewReader(d) == Stream(d, FALSE)

\* ioutil.ReadAll(b): the bytes from the read position to the end (or the
\* error), and the stream afterwards, left at its end
ReadAll(b) ==
    [d    |-> IF b.fails THEN <<>> ELSE SubSeq(b.data, b.pos + 1, Len(b.data)),
     err  |-> IF b.fails THEN ErrRead ELSE NilErr,
     body |-> [b EXCEPT !.pos = Len(b.data)]]

\* mutant of AlreadySigned: the length test is off by one
AlreadySignedOffByOne(h) ==
    /\ h # <<>>
    /\ Len(h[1]) > 1
    /\ HasPrefix(h[1][1], AWS4)

\* mutant of AlreadySigned: the test is missing and every request is signed
AlreadySignedNever(h) == FALSE

\* the already-signed test of RoundTrip: h is req.Header["Authorization"],
\* <<>> when the key is absent, otherwise <<values>>
AlreadySigned(h) ==
    /\ h # <<>>
    /\ Len(h[1]) > 0
    /\ HasPrefix(h[1][1], AWS4)

-----------------------------------------------------------------------------
(* Inputs *)

BodyBytes == {"x", "y"}

RECURSIVE SeqsUpTo(_, _)
SeqsUpTo(S, n) ==
    IF n = 0 THEN {<<>>}
    ELSE LET shorter == SeqsUpTo(S, n - 1)
         IN shorter \cup {Append(q, x) : q \in {p \in shorter : Len(p) = n - 1}, x \in S}

\* no body, a body of any bytes, and a body whose Read fails
Bodies ==
    {NilBody, Stream(<<>>, TRUE)}
        \cup {Stream(d, FALSE) : d \in SeqsUpTo(BodyBytes, MaxBodyLen)}

SignedValue == AWS4 \o <<"-">>
BasicValue == <<"B">>

\* req.Header["Authorization"]: absent, present without values, present
AuthHeaders ==
    { <<>>, << <<>> >>, << <<SignedValue>> >>, << <<BasicValue, SignedValue>> >> }

RawPaths == { <<"/", "a">>, <<"/", "%", "2", "C", "a">> }

\* req.Header["Date"]: absent or a value set by the caller
OldDate == <<0 - 1>>
DateHeaders == { <<>>, OldDate }

Requests ==
    [scheme : Schemes, rawPath : RawPaths, auth : AuthHeaders,
     date : DateHeaders, body : Bodies]

NoReq == [scheme |-> "", rawPath |-> <<>>, auth |-> <<>>, date |-> <<>>, body |-> NilBody]

-----------------------------------------------------------------------------
(* State *)

\* One invocation of Signer.RoundTrip: the receiver s, the position pc, the
\* locals (t, err), and what the invocation has done so far: the request it
\* was entered with, the steps taken, the Sign call made (at most one
\* element), the calls of s.transport.RoundTrip and what came back.
NewFrame(s, r) ==
    [s |-> s, pc |-> "check", skip |-> FALSE, entry |-> r, steps |-> <<>>,
     t |-> 0, d |-> <<>>, err |-> NilErr, readErr |-> FALSE, signed |-> <<>>,
     fwd |-> 0, fwdReq |-> <<>>, inner |-> <<>>, ret |-> <<>>]

Init ==
    /\ clients = [c \in Clients |->
                    IF c = DefaultClient THEN NilTransport ELSE CustomTransport]
    /\ signers = <<>>
    /\ lastNew = <<>>
    /\ req = NoReq
    /\ calls = <<>>
    /\ base = <<>>
    /\ clock = 0

\* no call is recorded: the caller is about to make one
Clean == calls = <<>> /\ lastNew = <<>>

\* no request is inside RoundTrip
Idle == \A i \in DOMAIN calls : calls[i].pc = "returned"

\* the invocation of RoundTrip that is running: the deepest one not returned
Cur == CHOOSE i \in DOMAIN calls :
          /\ calls[i].pc # "returned"
          /\ \A j \in DOMAIN calls : j > i => calls[j].pc = "returned"

Running(pc) == ~Idle /\ calls[Cur].pc = pc

-----------------------------------------------------------------------------
(* New *)

\* mutant of NewError: the region is tested before the service
NewErrorRegionFirst(v4s, service, region) ==
    CASE v4s = NilV4  -> "MissingSignerError"
      [] region = ""  -> "MissingRegionError"
      [] service = "" -> "MissingServiceError"
      [] OTHER        -> "nil"

\* the switch of New: the error kind, NilErr when the inputs are complete
NewError(v4s, service, region) ==
    CASE v4s = NilV4  -> MissingSignerError
      [] service = "" -> MissingServiceError
      [] region = ""  -> MissingRegionError
      [] OTHER        -> NilErr

\* c after the switch of New
NewClient(client) == IF client = NilClient THEN DefaultClient ELSE client

\* cl after the nil test of New
NewLogger(cl) == IF cl = NilLogger THEN DefaultLogger ELSE cl

\* mutant of InnerTransport: a nil transport is not replaced
InnerTransportKeepsNil(tr) == tr

\* s.transport after the nil test of New
InnerTransport(tr) == IF tr = NilTransport THEN DefaultTransport ELSE tr

New(v4s, client, service, region, cl) ==
    LET e  == NewError(v4s, service, region)
        c  == NewClient(client)
        id == Len(signers) + 1
        s  == [transport |-> InnerTransport(clients[c]), v4 |-> v4s,
               service |-> service, region |-> region, logger |-> NewLogger(cl)]
        call == [v4s |-> v4s, client |-> client, service |-> service,
                 region |-> region, cl |-> cl, pre |-> clients]
    IN /\ Clean
       /\ Len(signers) < MaxSigners
       /\ IF e # NilErr
          THEN /\ lastNew' = <<call @@ [retClient |-> NilClient, retErr |-> e]>>
               /\ UNCHANGED <<clients, signers>>
          ELSE /\ signers' = Append(signers, s)
               /\ clients' = [clients EXCEPT ![c] = SignerRef(id)]
               /\ lastNew' = <<call @@ [retClient |-> c, retErr |-> NilErr]>>
       /\ UNCHANGED <<req, calls, base, clock>>

-----------------------------------------------------------------------------
(* RoundTrip *)

\* a caller sends request r through client c, whose transport is a Signer
Issue(c, r) ==
    /\ Clean
    /\ clients[c].kind = "signer"
    /\ req' = r
    /\ calls' = <<NewFrame(clients[c].id, r)>>
    /\ UNCHANGED <<clients, signers, lastNew, base, clock>>

\* the caller has the results of New or of RoundTrip and goes on to its
\* next call: the record of the finished call is dropped
CallerContinues ==
    /\ Idle
    /\ ~Clean
    /\ lastNew' = <<>>
    /\ req' = NoReq
    /\ calls' = <<>>
    /\ base' = <<>>
    /\ UNCHANGED <<clients, signers, clock>>

Step(f) == calls' = [calls EXCEPT ![Cur] = f]

RT_Check ==
    /\ Running("check")
    /\ LET f == calls[Cur]
       IN Step(IF AlreadySigned(req.auth)
               THEN [f EXCEPT !.pc = "forward", !.skip = TRUE]
               ELSE [f EXCEPT !.pc = "scheme"])
    /\ UNCHANGED <<clients, signers, lastNew, req, base, clock>>

RT_Scheme ==
    /\ Running("scheme")
    /\ req' = [req EXCEPT !.scheme = HTTPS]
    /\ Step([calls[Cur] EXCEPT !.pc = "path", !.steps = Append(@, "scheme")])
    /\ UNCHANGED <<clients, signers, lastNew, base, clock>>

\* req.URL.RawPath after the path step
EscapedRawPath(rawPath) ==
    IF Contains(rawPath, Pct2C) THEN EscapePath(rawPath, FALSE) ELSE rawPath

RT_Path ==
    /\ Running("path")
    /\ req' = [req EXCEPT !.rawPath = EscapedRawPath(@)]
    /\ Step([calls[Cur] EXCEPT !.pc = "date", !.steps = Append(@, "path")])
    /\ UNCHANGED <<clients, signers, lastNew, base, clock>>

RT_Date ==
    /\ Running("date")
    /\ \E adv \in {0, 1} :
        LET t == Now(adv)
        IN /\ clock' = t
           /\ req' = [req EXCEPT !.date = Format(t)]
           /\ Step([calls[Cur] EXCEPT !.pc = "body", !.t = t,
                                      !.steps = Append(@, "date")])
    /\ UNCHANGED <<clients, signers, lastNew, base>>

\* return resp, err out of the invocation f
Return(f, resp, err) ==
    [f EXCEPT !.pc = "returned", !.ret = <<[resp |-> resp, err |-> err]>>]

\* mutant of BodyReadFailed: the read error is not tested
BodyReadFailedIgnored(err) == FALSE

\* the test of the error of ioutil.ReadAll
BodyReadFailed(err) == err # NilErr

\* the switch on req.Body up to the Sign call: nothing to read for a nil
\* body; otherwise the body is read to its end and replaced by a reader over
\* the bytes read, or the read error is returned
RT_Body ==
    /\ Running("body")
    /\ LET f == [calls[Cur] EXCEPT !.steps = Append(@, "body")]
           rd == ReadAll(req.body)
       IN IF req.body.nil
          THEN /\ Step([f EXCEPT !.pc = "sign"])
               /\ UNCHANGED req
          ELSE IF BodyReadFailed(rd.err)
          THEN /\ Step(Return([f EXCEPT !.readErr = TRUE], NilResp, rd.err))
               /\ req' = [req EXCEPT !.body = rd.body]
          ELSE /\ Step([f EXCEPT !.pc = "sign", !.d = rd.d])
               /\ req' = [req EXCEPT !.body = NewReader(rd.d)]
    /\ UNCHANGED <<clients, signers, lastNew, base, clock>>

\* v4.Signer.Sign, on success: the request carries the signature
Signed(r) == [r EXCEPT !.auth = << <<SignedValue>> >>]

\* mutant of SignTime: Sign gets the time of its own start
SignTimeStart(t, start) == start

\* the timestamp argument of the Sign call: t, not the later start
SignTime(t, start) == t

\* the body argument of the Sign call: nil, or a second reader over d
SignBody(nil, d) == IF nil THEN <<>> ELSE <<NewReader(d)>>

\* the err that the test after the switch reads: the Sign call of the nil
\* case assigns it; the default case declares its own err (d, err := ...),
\* which takes the result of its Sign call, and leaves the outer one nil
ErrAfterSwitch(nil, signErr) == IF nil THEN signErr ELSE NilErr

RT_Sign(signErr) ==
    /\ Running("sign")
    /\ \E adv \in {0, 1} :
        LET f == calls[Cur]
            start == Now(adv)
            call == [err |-> signErr, req |-> req,
                     body |-> SignBody(req.body.nil, f.d),
                     service |-> signers[f.s].service,
                     region |-> signers[f.s].region,
                     t |-> SignTime(f.t, start)]
            err == ErrAfterSwitch(req.body.nil, signErr)
            g == [f EXCEPT !.signed = <<call>>, !.err = err,
                           !.steps = Append(@, "sign")]
        IN /\ clock' = start
           /\ req' = IF signErr = NilErr THEN Signed(req) ELSE req
           /\ Step(IF err # NilErr THEN Return(g, NilResp, err)
                                   ELSE [g EXCEPT !.pc = "forward"])
    /\ UNCHANGED <<clients, signers, lastNew, base>>

\* mutant of Result: the response is dropped when there is an error
ResultDropsResponse(resp, err) ==
    IF err # "nil" THEN [resp |-> "nil", err |-> err]
                   ELSE [resp |-> resp, err |-> "nil"]

\* what RoundTrip returns once s.transport.RoundTrip has returned resp, err
Result(resp, err) ==
    IF err # NilErr THEN [resp |-> resp, err |-> err]
                    ELSE [resp |-> resp, err |-> NilErr]

\* s.transport.RoundTrip has returned r: an already-signed request returns
\* it directly, a request that was signed returns it through Result
Finish(f, r) ==
    LET out == IF f.skip THEN r ELSE Result(r.resp, r.err)
    IN Return([f EXCEPT !.inner = <<r>>], out.resp, out.err)

\* the invocation calls s.transport.RoundTrip(req)
Forwarding(f) ==
    [f EXCEPT !.fwd = @ + 1, !.fwdReq = <<req>>, !.steps = Append(@, "forward")]

\* what a transport that is not a Signer may return
BaseOutcomes ==
    { [resp |-> Resp200, err |-> NilErr],
      [resp |-> NilResp, err |-> ErrNet],
      [resp |-> Resp200, err |-> ErrNet] }

\* s.transport is another Signer: its RoundTrip is entered
RT_ForwardSigner ==
    /\ Running("forward")
    /\ LET f == calls[Cur]
           tr == signers[f.s].transport
       IN /\ tr.kind = "signer"
          /\ calls' = Append([calls EXCEPT ![Cur] = [Forwarding(f) EXCEPT !.pc = "wait"]],
                             NewFrame(tr.id, req))
    /\ UNCHANGED <<clients, signers, lastNew, req, base, clock>>

\* s.transport is not a Signer: it is called and returns
RT_ForwardBase(out) ==
    /\ Running("forward")
    /\ LET f == calls[Cur]
           tr == signers[f.s].transport
       IN /\ tr.kind = "base"
          /\ base' = Append(base, [transport |-> tr, req |-> req, by |-> Cur,
                                   resp |-> out.resp, err |-> out.err])
          /\ Step(Finish(Forwarding(f), out))
    /\ UNCHANGED <<clients, signers, lastNew, req, clock>>

\* the inner Signer's RoundTrip has returned
RT_Return ==
    /\ Running("wait")
    /\ Step(Finish(calls[Cur], calls[Cur + 1].ret[1]))
    /\ UNCHANGED <<clients, signers, lastNew, req, base, clock>>

-----------------------------------------------------------------------------

V4Args == {NilV4, TheV4}
ClientArgs == {NilClient, DefaultClient, UserClient}
ServiceArgs == {"", "es"}
RegionArgs == {"", "us-east-1"}
LoggerArgs == {NilLogger, UserLogger}

\* The factory on its own: every combination of present and missing inputs.
NextNew ==
    \/ \E v4s \in V4Args, client \in ClientArgs, service \in ServiceArgs,
          region \in RegionArgs, cl \in LoggerArgs :
            New(v4s, client, service, region, cl)
    \/ CallerContinues

SpecNew == Init /\ [][NextNew]_vars

\* Clients built by successful calls of New, and requests sent through them.
Next ==
    \/ Clean /\ \E client \in ClientArgs :
                    New(TheV4, client, "es", "us-east-1", NilLogger)
    \/ Clean /\ \E c \in Clients, r \in Requests : Issue(c, r)
    \/ RT_Check
    \/ RT_Scheme
    \/ RT_Path
    \/ RT_Date
    \/ RT_Body
    \/ \E signErr \in {NilErr, ErrSign} : RT_Sign(signErr)
    \/ RT_ForwardSigner
    \/ \E out \in BaseOutcomes : RT_ForwardBase(out)
    \/ RT_Return
    \/ CallerContinues

Spec == Init /\ [][Next]_vars

-----------------------------------------------------------------------------
(* Properties *)

\* the claims' own reading of "the Authorization header is present and its
\* first value begins with AWS4"
HasSignaturePrefix(h) ==
    /\ h # <<>>
    /\ h[1] # <<>>
    /\ Len(h[1][1]) >= 4
    /\ h[1][1][1] = "A" /\ h[1][1][2] = "W" /\ h[1][1][3] = "S" /\ h[1][1][4] = "4"

\* an invocation of RoundTrip whose request was not already signed
Unsigned(f) == ~HasSignaturePrefix(f.entry.auth)

\* the invocation made a Sign call, and it returned an error
SignFailed(f) == f.signed # <<>> /\ f.signed[1].err # NilErr

\* C1: whenever the Sign call of an invocation of RoundTrip returns an error,
\* with or without a body, that invocation never calls the inner transport
\* and returns no response and that error.
C1_SignErrorIsTerminal ==
    \A i \in DOMAIN calls :
        LET f == calls[i]
        IN SignFailed(f) =>
            /\ f.fwd = 0
            /\ f.pc = "returned"
            /\ f.ret = <<[resp |-> NilResp, err |-> f.signed[1].err]>>

C3_SchemeAlwaysHttps ==
    \A i \in DOMAIN calls :
        calls[i].pc = "returned" => req.scheme = HTTPS

\* the bytes of the body an invocation was entered with
OriginalBytes(f) == SubSeq(f.entry.body.data, f.entry.body.pos + 1, Len(f.entry.body.data))

\* an invocation that signed a request with a body and forwarded it
ForwardedWithBody(f) ==
    /\ Unsigned(f)
    /\ ~f.entry.body.nil
    /\ f.fwdReq # <<>>

C5_NewErrors ==
    lastNew # <<>> =>
        LET n == lastNew[1]
            missing == n.v4s = NilV4 \/ n.service = "" \/ n.region = ""
        IN /\ (n.retErr # NilErr) <=> missing
           /\ (n.retClient = NilClient) <=> missing
           /\ n.v4s = NilV4 => n.retErr = MissingSignerError
           /\ (n.v4s # NilV4 /\ n.service = "") => n.retErr = MissingServiceError
           /\ (n.v4s # NilV4 /\ n.service # "" /\ n.region = "")
                 => n.retErr = MissingRegionError
           /\ missing => clients = n.pre

C5_Witness ==
    /\ lastNew # <<>>
    /\ lastNew[1].v4s # NilV4
    /\ lastNew[1].service = ""
    /\ lastNew[1].region = ""
    /\ lastNew[1].client = UserClient
    /\ lastNew[1].retErr = MissingServiceError
    /\ clients[UserClient].kind = "signer"

C7_ReadErrorIsTerminal ==
    \A i \in DOMAIN calls :
        LET f == calls[i]
        IN (Unsigned(f) /\ f.entry.body.fails /\ f.pc \notin {"check", "scheme", "path", "date", "body"}) =>
            /\ f.signed = <<>>
            /\ f.fwd = 0
            /\ f.pc = "returned"
            /\ f.ret = <<[resp |-> NilResp, err |-> ErrRead]>>

C7_Witness ==
    \E i \in DOMAIN calls :
        /\ Unsigned(calls[i])
        /\ calls[i].entry.body.fails
        /\ calls[i].pc = "returned"

\* the order of the steps of RoundTrip
StepOrder == <<"scheme", "path", "date", "body", "sign", "forward">>

\* C8: the steps an unsigned request's invocation has taken are an initial
\* part of scheme, path, Date, body, sign, forward, each once; the request
\* handed to Sign has scheme https, the escaped raw path, the Date header
\* that is the format of the timestamp handed to Sign, and the buffered body
\* (nil for no body), of which Sign gets a reader of its own; the inner
\* transport is called only after Sign.
C8_StepsInOrder ==
    \A i \in DOMAIN calls :
        LET f == calls[i]
        IN Unsigned(f) =>
            /\ Len(f.steps) <= Len(StepOrder)
            /\ f.steps = SubSeq(StepOrder, 1, Len(f.steps))
            /\ f.fwd > 0 => f.signed # <<>>
            /\ f.signed # <<>> =>
                LET c == f.signed[1]
                IN /\ c.req.scheme = HTTPS
                   /\ c.req.rawPath =
                         (IF Contains(f.entry.rawPath, Pct2C)
                          THEN EscapePath(f.entry.rawPath, FALSE)
                          ELSE f.entry.rawPath)
                   /\ c.req.date = Format(c.t)
                   /\ f.entry.body.nil => (c.req.body = NilBody /\ c.body = <<>>)
                   /\ ~f.entry.body.nil =>
                        /\ c.req.body = Stream(OriginalBytes(f), FALSE)
                        /\ c.body = <<Stream(OriginalBytes(f), FALSE)>>
                   /\ f.pc = "returned" => req.rawPath = c.req.rawPath

C8_Witness ==
    \E i \in DOMAIN calls :
        LET f == calls[i]
        IN /\ Unsigned(f)
           /\ f.entry.scheme = "http"
           /\ Contains(f.entry.rawPath, Pct2C)
           /\ Len(OriginalBytes(f)) > 0
           /\ f.steps = StepOrder
           /\ f.signed[1].t > 0
           /\ clock > f.signed[1].t

\* what the inner transport returned to invocation i: the result of the one
\* call of a transport that is not a Signer, or of the inner Signer
InnerResults(i) ==
    IF signers[calls[i].s].transport.kind = "base"
    THEN {[resp |-> base[j].resp, err |-> base[j].err] :
             j \in {k \in DOMAIN base : base[k].by = i}}
    ELSE IF i + 1 \in DOMAIN calls /\ calls[i + 1].ret # <<>>
         THEN {calls[i + 1].ret[1]} ELSE {}

\* C9: an invocation calls the inner transport at most once; one that has
\* reached the forward step and returned has called it exactly once and
\* returns the response and the error that call returned.
C9_ForwardOncePassThrough ==
    \A i \in DOMAIN calls :
        LET f == calls[i]
        IN /\ f.fwd <= 1
           /\ Cardinality({k \in DOMAIN base : base[k].by = i}) <= 1
           /\ ("forward" \in {f.steps[k] : k \in DOMAIN f.steps} /\ f.pc = "returned") =>
                /\ f.fwd = 1
                /\ InnerResults(i) = {f.ret[1]}

C9_Witness ==
    \E i \in DOMAIN calls :
        /\ Unsigned(calls[i])
        /\ calls[i].fwd = 1
        /\ calls[i].pc = "returned"
        /\ calls[i].ret = <<[resp |-> Resp200, err |-> ErrNet]>>

\* the Signers a request sent to Signer id passes, outermost first
RECURSIVE Chain(_)
Chain(id) ==
    IF signers[id].transport.kind = "signer"
    THEN <<id>> \o Chain(signers[id].transport.id)
    ELSE <<id>>

====
